---- MODULE Spec2Model ----
(***************************************************************************)
(* WorQ coordination core (worq/core.py): the Broker orchestration code    *)
(* over the AbstractMessageQueue backend contract.  The Broker's methods   *)
(* are translated from core.py; the backend's primitives are abstract in   *)
(* core.py (every body raises NotImplementedError), so they are modelled   *)
(* from the contract: one atomic step each.                                *)
(***************************************************************************)
EXTENDS Integers, Sequences, FiniteSets, TLC

\* ------------------------------------------------------------------ bounds
MaxTasks == 2
MaxTracked == 1
MaxSize == 3
MaxStops == 1

TaskIds == 1..MaxTasks

\* Broker.stop: stop.id = 'stop', the one id every sentinel is enqueued under.
StopId == 0

\* Every id the backend is asked about.
Ids == TaskIds \cup {StopId}
Workers == {"w1", "w2"}
Runners == {"w1"}
Clients == {"c1", "c2"}
Callers == {"c1"}
Heartrates == {0, 1}
ResultTimeouts == {2}
TasksetIds == {"ts1", "ts2"}

\* ------------------------------------------------------------------ values
\* Python's None.
None == [kind |-> "None"]

\* worq.const.TASK_EXPIRED: the one expiry sentinel object.
TASK_EXPIRED == [kind |-> "TASK_EXPIRED"]

\* worq.const.STATUS_VALUES: the fixed status enumeration.
STATUS_VALUES == {[kind |-> "status", v |-> "pending"], [kind |-> "status", v |-> "processing"]}

\* Status values a caller sets: an enumeration value or an application object.
StatusInputs == {[kind |-> "status", v |-> "pending"], [kind |-> "obj", v |-> "s1"]}

\* Result objects a task body can produce.
ResultValues == {[kind |-> "obj", v |-> "r1"]}

\* A wait timeout argument: None, or a number of seconds.
TimeoutNone == [isNone |-> TRUE, secs |-> 0]
Seconds(n) == [isNone |-> FALSE, secs |-> n]

\* Broker.task_options
task_options ==
    {"result_status", "result_timeout", "heartrate", "taskset", "on_error", "size"}

\* The options dictionaries tasks are submitted with (key -> value; 0 is falsy).
OptionChoices ==
    { <<>>,
      "result_status" :> 1,
      "result_status" :> 0,
      "result_timeout" :> 2,
      "heartrate" :> 1,
      "priority" :> 1,
      ("result_status" :> 1) @@ ("priority" :> 1) }

\* A task object: identity, name, options and the attributes derived from them.
Task(id, options, heartrate, result_timeout) ==
    [kind |-> "task", id |-> id, name |-> "func", options |-> options,
     heartrate |-> heartrate, result_timeout |-> result_timeout]

\* Submissions with every kind of options dictionary.
Tasks ==
    { Task(i, o, 1, rt) : i \in TaskIds, o \in OptionChoices, rt \in ResultTimeouts }

\* Submissions that ask for result tracking, with every heartrate.
TrackedTasks ==
    { Task(i, "result_status" :> 1, h, rt) :
          i \in 1..MaxTracked, h \in Heartrates, rt \in ResultTimeouts }

\* DeferredResult(broker, id, name, heartrate): the claim ticket.
DeferredResult(id, name, heartrate) ==
    [kind |-> "DeferredResult", id |-> id, name |-> name, heartrate |-> heartrate]

\* Broker.serialize: dumps(obj, HIGHEST_PROTOCOL), an opaque byte string.
serialize(obj) == [kind |-> "pickle", obj |-> obj]

\* loads(message) raises on anything that is not a pickle.
DeserializeRaises(message) == message.kind # "pickle"

\* Broker.deserialize: loads(message).
deserialize(message) == message.obj

\* dict.get(key, default)
Get(options, key, default) ==
    IF key \in DOMAIN options THEN options[key] ELSE default

\* Python truthiness of an option value.
Truthy(v) == v # 0

\* ------------------------------------------------------------------ state
VARIABLES
    queue,      \* backend: pending (id, message) pairs, oldest first
    results,    \* backend: result slot of every task id
    current,    \* the task each worker is processing (None: free)
    received,   \* per task id, how many next_task calls returned that task
    waiting,    \* the pop_result call each client is blocked in
    ret,        \* outcome of the last pop_result call that returned (waited:
                \* the call blocked before it returned)
    enqRet,     \* outcome of the last Broker.enqueue
    enqueued,   \* ids the backend accepted through enqueue_task
    sinceArm,   \* seconds since a slot's expiry clock was last (re)armed
    rearmed,    \* ids whose clock a heartbeat re-armed in its last second
    statuses,   \* backend: status message of every task id
    tasksets,   \* backend: result storage of every taskset id
    tsHist,     \* per taskset: its size, the subtasks that reported (in all,
                \* and since the storage was last emptied) and the number of
                \* update_taskset calls answered with a list
    tsRet,      \* outcome of the last update_taskset
    loop,       \* the start_worker call of every worker: where it is, its
                \* max_wait and, once it ended, what ended it
    invoked,    \* the (worker, task id) pairs of the invocations that
                \* returned, oldest first
    tasks,      \* Broker.tasks: the registry, name -> callable
    exposeRet,  \* outcome of the last Broker.expose
    statusRet,  \* outcome of the last Broker.status
    lastStatus, \* per task id, the value of the most recent Broker.set_status
    delivered   \* per task id, how many pop_result calls returned a result

tsVars == <<tasksets, tsHist, tsRet>>

\* The worker loops, the registry and the status reads.
ctlVars == <<loop, invoked, tasks, exposeRet, statusRet>>

histVars == <<lastStatus, delivered>>

vars == <<queue, results, current, received, waiting, ret, enqRet, enqueued,
          sinceArm, rearmed, statuses, tasksets, tsHist, tsRet, loop, invoked,
          tasks, exposeRet, statusRet, lastStatus, delivered>>

\* ------------------------------------------------------------------ backend slots
Absent == [kind |-> "absent", msg |-> None, armed |-> FALSE, ttl |-> 0, heartrate |-> 0]

\* Lifecycle step 1: a non-expiring placeholder remembering the handle's heartrate.
Placeholder(heartrate) ==
    [kind |-> "placeholder", msg |-> None, armed |-> FALSE, ttl |-> 0,
     heartrate |-> heartrate]

\* The placeholder lapsed without a result: the backend has recorded expiry.
Expired(heartrate) ==
    [kind |-> "expired", msg |-> None, armed |-> FALSE, ttl |-> 0,
     heartrate |-> heartrate]

\* A stored result, kept for `timeout` seconds.
StoredResult(message, timeout, heartrate) ==
    [kind |-> "result", msg |-> message, armed |-> TRUE, ttl |-> timeout,
     heartrate |-> heartrate]

\* discard_result forced the slot to the expiry token.
Failed(token, heartrate) ==
    [kind |-> "failed", msg |-> token, armed |-> FALSE, ttl |-> 0,
     heartrate |-> heartrate]

\* ------------------------------------------------------------------ backend contract
\* Number of pending messages carrying the id.
Pending(id) == Cardinality({i \in 1..Len(queue) : queue[i].id = id})

\* AbstractMessageQueue.enqueue_task: placeholder and visibility in one step.
enqueue_task(task_id, message, result) ==
    /\ queue' = Append(queue, [id |-> task_id, message |-> message])
    /\ results' = IF result = None
                  THEN results
                  ELSE [results EXCEPT ![task_id] = Placeholder(result.heartrate)]

\* AbstractMessageQueue.discard_pending: every pending message is dropped.
discard_pending == queue' = <<>>

\* The window a dequeue arms on the result placeholder.
DequeueWindow(slot) == slot.heartrate * 2 + 5

\* AbstractMessageQueue.get, when a message is pending: pop it and arm the
\* timeout on its result placeholder, atomically.
get ==
    /\ queue # <<>>
    /\ queue' = Tail(queue)
    /\ LET id == Head(queue).id
       IN IF results[id].kind = "placeholder"
          THEN /\ results' = [results EXCEPT ![id].armed = TRUE,
                                             ![id].ttl = DequeueWindow(results[id])]
               /\ sinceArm' = [sinceArm EXCEPT ![id] = 0]
          ELSE UNCHANGED <<results, sinceArm>>

\* AbstractMessageQueue.set_task_timeout: (re)arm a live placeholder's clock.
set_task_timeout(task_id, timeout) ==
    IF results[task_id].kind = "placeholder"
    THEN /\ results' = [results EXCEPT ![task_id].armed = TRUE,
                                       ![task_id].ttl = timeout]
         /\ sinceArm' = [sinceArm EXCEPT ![task_id] = 0]
         /\ rearmed' = IF results[task_id].armed /\ results[task_id].ttl = 1
                       THEN rearmed \cup {task_id} ELSE rearmed
    ELSE UNCHANGED <<results, sinceArm, rearmed>>

\* AbstractMessageQueue.set_status: last write wins.
set_status(task_id, message) ==
    statuses' = [statuses EXCEPT ![task_id] = message]

\* AbstractMessageQueue.set_result: store the final result with an expiry.
set_result(task_id, message, timeout) ==
    results' = [results EXCEPT
                   ![task_id] = StoredResult(message, timeout, @.heartrate)]

\* AbstractMessageQueue.discard_result: force the slot to the expiry token.
discard_result(task_id, task_expired_token) ==
    results' = [results EXCEPT
                   ![task_id] = Failed(task_expired_token, @.heartrate)]

\* pop_result has something to hand out for the id.
Available(task_id) == results[task_id].kind \in {"result", "failed", "expired"}

\* What AbstractMessageQueue.pop_result returns when it returns now.
PopMessage(task_id) ==
    CASE results[task_id].kind \in {"result", "failed"} -> results[task_id].msg
      [] results[task_id].kind = "expired" -> TASK_EXPIRED
      [] OTHER -> None

\* Variant: a read that leaves the result in place.
pop_result_keep(task_id) == results' = results

\* AbstractMessageQueue.pop_result: read and remove; recorded expiry stays.
pop_result(task_id) ==
    results' = IF results[task_id].kind = "result"
               THEN [results EXCEPT ![task_id] = Absent]
               ELSE results

\* One second passes for a slot.
TickSlot(slot) ==
    IF ~slot.armed THEN slot
    ELSE IF slot.ttl > 1 THEN [slot EXCEPT !.ttl = @ - 1]
    ELSE IF slot.kind = "placeholder" THEN Expired(slot.heartrate)
    ELSE Absent

\* Storage of a taskset id nobody initialized.
NoTaskset ==
    [open |-> FALSE, handle |-> None, msgs |-> <<>>, armed |-> FALSE, ttl |-> 0]

\* AbstractMessageQueue.init_taskset: the taskset's result storage.
init_taskset(taskset_id, result) ==
    tasksets' = [tasksets EXCEPT ![taskset_id] =
                    [open |-> TRUE, handle |-> result, msgs |-> <<>>,
                     armed |-> FALSE, ttl |-> 0]]

\* An update_taskset return value: None, or the list of collected messages.
NoList == [isNone |-> TRUE, list |-> <<>>]
List(msgs) == [isNone |-> FALSE, list |-> msgs]

\* Variant: every update at or past the count is answered with the list.
TasksetAnswerAtLeast(msgs, num_tasks) ==
    IF Len(msgs) >= num_tasks - 1 THEN List(msgs) ELSE NoList

\* AbstractMessageQueue.update_taskset: the answer to the update that made the
\* collection `msgs`: the whole collection when it reached num_tasks.
TasksetAnswer(msgs, num_tasks) ==
    IF Len(msgs) = num_tasks THEN List(msgs) ELSE NoList

\* AbstractMessageQueue.update_taskset: append, answer, and (re)arm the
\* discard clock; a completed collection is handed out and removed.
update_taskset(taskset_id, num_tasks, message, timeout) ==
    LET msgs == Append(tasksets[taskset_id].msgs, message)
    IN tasksets' = [tasksets EXCEPT
                       ![taskset_id].msgs =
                           IF TasksetAnswer(msgs, num_tasks).isNone
                           THEN msgs ELSE <<>>,
                       ![taskset_id].armed = TasksetAnswer(msgs, num_tasks).isNone,
                       ![taskset_id].ttl = timeout]

\* One second passes for a taskset's storage: a lapsed collection is discarded.
TickTaskset(t) ==
    IF ~t.armed THEN t
    ELSE IF t.ttl > 1 THEN [t EXCEPT !.ttl = @ - 1]
    ELSE [t EXCEPT !.msgs = <<>>, !.armed = FALSE, !.ttl = 0]

\* ------------------------------------------------------------------ Broker
\* Variant: validation that accepts every key.
UnknownOptionsNone(options) == {}

\* Broker.enqueue: set(options) - self.task_options
UnknownOptions(options) == DOMAIN options \ task_options

\* Variant: tracking decided by the presence of the result_status key.
TrackingRequestedByPresence(options) ==
    "result_status" \in DOMAIN options \/ "result_timeout" \in DOMAIN options

\* Broker.enqueue: options.get('result_status', False) or 'result_timeout' in options
TrackingRequested(options) ==
    Truthy(Get(options, "result_status", 0)) \/ "result_timeout" \in DOMAIN options

\* Variant: no handle is ever passed on.
EnqueueResultNone(task) == None

\* Broker.enqueue: the handle handed to the backend and returned to the caller.
EnqueueResult(task) ==
    IF TrackingRequested(task.options)
    THEN DeferredResult(task.id, task.name, task.heartrate)
    ELSE None

\* Broker.enqueue(task).  Task ids are uuid4 tokens: no id is submitted twice.
Enqueue(task) ==
    /\ task.id \notin enqueued
    /\ IF UnknownOptions(task.options) # {}
       THEN /\ enqRet' = [kind |-> "ValueError", task |-> task, result |-> None]
            /\ UNCHANGED <<queue, results, enqueued>>
       ELSE /\ enqueue_task(task.id, serialize(task), EnqueueResult(task))
            /\ enqueued' = enqueued \cup {task.id}
            /\ enqRet' = [kind |-> "returned", task |-> task,
                          result |-> EnqueueResult(task)]
    /\ UNCHANGED <<current, received, waiting, ret, sinceArm, rearmed, statuses>>
    /\ UNCHANGED <<tsVars, ctlVars, histVars>>

\* Variant: only the oldest pending message is dropped.
DiscardPendingTasksOldest ==
    /\ queue' = IF queue = <<>> THEN queue ELSE Tail(queue)
    /\ UNCHANGED <<results, current, received, waiting, ret, enqRet, enqueued,
                   sinceArm, rearmed, statuses>>
    /\ UNCHANGED <<tsVars, ctlVars, histVars>>

\* Broker.discard_pending_tasks()
DiscardPendingTasks ==
    /\ discard_pending
    /\ UNCHANGED <<results, current, received, waiting, ret, enqRet, enqueued,
                   sinceArm, rearmed, statuses>>
    /\ UNCHANGED <<tsVars, ctlVars, histVars>>

\* Broker.set_status(task, value): enumeration values are stored as they are.
SetStatus(id, value) ==
    /\ set_status(id, IF value \notin STATUS_VALUES THEN serialize(value) ELSE value)
    /\ lastStatus' = [lastStatus EXCEPT ![id] = [set |-> TRUE, value |-> value]]
    /\ UNCHANGED <<queue, results, current, received, waiting, ret, enqRet,
                   enqueued, sinceArm, rearmed, delivered>>
    /\ UNCHANGED <<tsVars, ctlVars>>

\* AbstractMessageQueue.get_status: the stored status message, or None.
get_status(task_id) == statuses[task_id]

\* Variant: the stored message handed back as it is.
StatusResultRaw(message) == message

\* Broker.status: None and enumeration values as they are, anything else
\* deserialized.
StatusResult(message) ==
    IF message = None THEN message
    ELSE IF message \in STATUS_VALUES THEN message
    ELSE deserialize(message)

\* Broker.status(result)
Status(id) ==
    /\ statusRet' = [id |-> id, value |-> StatusResult(get_status(id))]
    /\ UNCHANGED <<queue, results, current, received, waiting, ret, enqRet,
                   enqueued, sinceArm, rearmed, statuses, loop, invoked, tasks,
                   exposeRet>>
    /\ UNCHANGED <<tsVars, histVars>>

\* Variant: the except branch hands the failure on to the caller.
NextTaskResultReraise(message) ==
    IF message = None THEN None
    ELSE IF DeserializeRaises(message.message)
    THEN [kind |-> "raised", id |-> message.id, name |-> "UnpicklingError"]
    ELSE deserialize(message.message)

\* Variant: the except branch taken for every message.
NextTaskResultSwallow(message) == None

\* Broker.next_task: what it returns for the backend's answer.
NextTaskResult(message) ==
    IF message = None THEN None
    ELSE IF DeserializeRaises(message.message) THEN None
    ELSE deserialize(message.message)

\* Broker.next_task(timeout) as a free worker calls it: what it does to the
\* backend and what the worker is handed.  With nothing pending the call
\* returns None at once for a finite timeout and stays blocked for None.
NextTaskCall(w, timeout) ==
    /\ current[w] = None
    /\ IF queue # <<>>
       THEN /\ get
            /\ LET task == NextTaskResult(Head(queue))
               IN /\ current' = [current EXCEPT ![w] = task]
                  /\ received' = IF task = None THEN received
                                 ELSE [received EXCEPT ![task.id] = @ + 1]
       ELSE /\ ~timeout.isNone
            /\ UNCHANGED <<queue, results, sinceArm, current, received>>

\* Broker.next_task(timeout) called by a worker outside start_worker.
NextTask(w, timeout) ==
    /\ NextTaskCall(w, timeout)
    /\ UNCHANGED <<waiting, ret, enqRet, enqueued, rearmed, statuses>>
    /\ UNCHANGED <<tsVars, ctlVars, histVars>>

\* Variant: the window without the doubling.
HeartbeatTimeoutShort(task) == task.heartrate + 5

\* Broker.heartbeat: task.heartrate * 2 + 5
HeartbeatTimeout(task) == task.heartrate * 2 + 5

\* Broker.heartbeat(task), called by the worker running the task.
Heartbeat(w) ==
    /\ current[w] # None
    /\ set_task_timeout(current[w].id, HeartbeatTimeout(current[w]))
    /\ UNCHANGED <<queue, current, received, waiting, ret, enqRet, enqueued, statuses>>
    /\ UNCHANGED <<tsVars, ctlVars, histVars>>

\* Broker.set_result(task, result): the running task finishes with a result.
SetResult(w, result) ==
    /\ current[w] # None
    /\ set_result(current[w].id, serialize(result), current[w].result_timeout)
    /\ current' = [current EXCEPT ![w] = None]
    /\ UNCHANGED <<queue, received, waiting, ret, enqRet, enqueued, sinceArm,
                   rearmed, statuses>>
    /\ UNCHANGED <<tsVars, ctlVars, histVars>>

\* Broker.task_failed(task): the running task reports failure.
TaskFailed(w) ==
    /\ current[w] # None
    /\ discard_result(current[w].id, serialize(TASK_EXPIRED))
    /\ current' = [current EXCEPT ![w] = None]
    /\ UNCHANGED <<queue, received, waiting, ret, enqRet, enqueued, sinceArm,
                   rearmed, statuses>>
    /\ UNCHANGED <<tsVars, ctlVars, histVars>>

\* Broker.pop_result: `timeout < 0`.  The module is Python 2 (cPickle,
\* iteritems), where None orders below every number, so None < 0 is true.
TimeoutIsNegative(timeout) == IF timeout.isNone THEN TRUE ELSE timeout.secs < 0

\* Variant: an empty answer reported as expiry.
PopOutcomeNoneExpired(id, timeout, waited, message) ==
    IF message = None \/ message = TASK_EXPIRED
    THEN [kind |-> "TaskExpired", id |-> id, timeout |-> timeout,
          waited |-> waited, value |-> None]
    ELSE IF deserialize(message) = TASK_EXPIRED
    THEN [kind |-> "TaskExpired", id |-> id, timeout |-> timeout,
          waited |-> waited, value |-> None]
    ELSE [kind |-> "value", id |-> id, timeout |-> timeout,
          waited |-> waited, value |-> deserialize(message)]

\* Broker.pop_result after the backend answered: KeyError, TaskExpired or value.
\* TASK_EXPIRED is a singleton that unpickles to itself, so `is` is equality.
PopOutcome(id, timeout, waited, message) ==
    IF message = None
    THEN [kind |-> "KeyError", id |-> id, timeout |-> timeout, waited |-> waited,
          value |-> None]
    ELSE LET result == IF message = TASK_EXPIRED THEN message
                       ELSE deserialize(message)
         IN IF result = TASK_EXPIRED
            THEN [kind |-> "TaskExpired", id |-> id, timeout |-> timeout,
                  waited |-> waited, value |-> None]
            ELSE [kind |-> "value", id |-> id, timeout |-> timeout,
                  waited |-> waited, value |-> result]

NotWaiting == [active |-> FALSE, id |-> 0, timeout |-> Seconds(0), remaining |-> 0]

\* Broker.pop_result: `return result`, one more call that returned a result.
Delivered(outcome) ==
    IF outcome.kind = "value"
    THEN [delivered EXCEPT ![outcome.id] = @ + 1]
    ELSE delivered

\* Variant: the timeout validated after the backend's pop.
PopResultValidateLate(c, id, timeout) ==
    /\ ~waiting[c].active
    /\ pop_result(id)
    /\ ret' = IF TimeoutIsNegative(timeout)
              THEN [kind |-> "ValueError", id |-> id, timeout |-> timeout,
                    waited |-> FALSE, value |-> None]
              ELSE PopOutcome(id, timeout, FALSE, PopMessage(id))
    /\ delivered' = Delivered(ret')
    /\ UNCHANGED <<queue, current, received, waiting, enqRet, enqueued, sinceArm,
                   rearmed, statuses, lastStatus>>
    /\ UNCHANGED <<tsVars, ctlVars>>

\* Broker.pop_result(task, timeout): validation, then the backend's pop, which
\* answers at once when it has a message or timeout is 0 and blocks otherwise.
PopResult(c, id, timeout) ==
    /\ ~waiting[c].active
    /\ IF TimeoutIsNegative(timeout)
       THEN /\ ret' = [kind |-> "ValueError", id |-> id, timeout |-> timeout,
                        waited |-> FALSE, value |-> None]
            /\ UNCHANGED <<results, waiting, delivered>>
       ELSE IF Available(id) \/ timeout.secs = 0
       THEN /\ pop_result(id)
            /\ ret' = PopOutcome(id, timeout, FALSE, PopMessage(id))
            /\ delivered' = Delivered(ret')
            /\ UNCHANGED waiting
       ELSE /\ waiting' = [waiting EXCEPT ![c] =
                              [active |-> TRUE, id |-> id, timeout |-> timeout,
                               remaining |-> timeout.secs]]
            /\ UNCHANGED <<results, ret, delivered>>
    /\ UNCHANGED <<queue, current, received, enqRet, enqueued, sinceArm,
                   rearmed, statuses, lastStatus>>
    /\ UNCHANGED <<tsVars, ctlVars>>

\* A blocked pop_result returns: a message arrived, or its wait ran out.
PopResultWake(c) ==
    /\ waiting[c].active
    /\ Available(waiting[c].id) \/ waiting[c].remaining = 0
    /\ pop_result(waiting[c].id)
    /\ ret' = PopOutcome(waiting[c].id, waiting[c].timeout, TRUE,
                      PopMessage(waiting[c].id))
    /\ waiting' = [waiting EXCEPT ![c] = NotWaiting]
    /\ delivered' = Delivered(ret')
    /\ UNCHANGED <<queue, current, received, enqRet, enqueued, sinceArm,
                   rearmed, statuses, lastStatus>>
    /\ UNCHANGED <<tsVars, ctlVars>>

\* One second passes: expiry clocks and bounded waits run down.  A wait that
\* ran out returns before the next second.
Tick ==
    /\ \A c \in Clients : waiting[c].active => waiting[c].remaining > 0
    /\ \/ \E id \in TaskIds : results[id].armed
       \/ \E ts \in TasksetIds : tasksets[ts].armed
    /\ results' = [id \in Ids |-> TickSlot(results[id])]
    /\ sinceArm' = [id \in TaskIds |->
                       IF results[id].armed /\ results[id].kind = "placeholder"
                       THEN sinceArm[id] + 1 ELSE sinceArm[id]]
    /\ waiting' = [c \in Clients |->
                      IF waiting[c].active
                      THEN [waiting[c] EXCEPT !.remaining = @ - 1]
                      ELSE waiting[c]]
    /\ tasksets' = [ts \in TasksetIds |-> TickTaskset(tasksets[ts])]
    /\ tsHist' = [ts \in TasksetIds |->
                     IF tasksets[ts].armed /\ tasksets[ts].ttl <= 1
                     THEN [tsHist[ts] EXCEPT !.since = {}]
                     ELSE tsHist[ts]]
    /\ UNCHANGED <<queue, current, received, ret, enqRet, enqueued, rearmed,
                   statuses, tsRet>>
    /\ UNCHANGED <<ctlVars, histVars>>

\* A TaskSet object: identity, name, heartrate and the number of subtasks.
TaskSet(id, size, heartrate) ==
    [kind |-> "taskset", id |-> id, name |-> "taskset", heartrate |-> heartrate,
     size |-> size]

\* Broker.init_taskset(taskset): allocate the handle, initialize the storage.
InitTaskset(taskset) ==
    /\ ~tasksets[taskset.id].open
    /\ init_taskset(taskset.id,
                    DeferredResult(taskset.id, taskset.name, taskset.heartrate))
    /\ tsHist' = [tsHist EXCEPT ![taskset.id].size = taskset.size]
    /\ UNCHANGED <<queue, results, current, received, waiting, ret, enqRet,
                   enqueued, sinceArm, rearmed, statuses, tsRet>>
    /\ UNCHANGED <<ctlVars, histVars>>

\* The result object of subtask i.
SubResult(i) == [kind |-> "sub", n |-> i]

\* Subtask i of an initialized taskset completes and reports its serialized
\* result through update_taskset, with the taskset's size as num_tasks; every
\* subtask reports once.
UpdateTaskset(ts, i, timeout) ==
    /\ tasksets[ts].open
    /\ i \in 1..tsHist[ts].size
    /\ i \notin tsHist[ts].reported
    /\ update_taskset(ts, tsHist[ts].size, serialize(SubResult(i)), timeout)
    /\ tsRet' = [id |-> ts, by |-> i,
                 value |-> TasksetAnswer(
                               Append(tasksets[ts].msgs, serialize(SubResult(i))),
                               tsHist[ts].size)]
    /\ tsHist' = [tsHist EXCEPT
                     ![ts].reported = @ \cup {i},
                     ![ts].since = IF tsRet'.value.isNone THEN @ \cup {i} ELSE {},
                     ![ts].completions = IF tsRet'.value.isNone THEN @ ELSE @ + 1]
    /\ UNCHANGED <<queue, results, current, received, waiting, ret, enqRet,
                   enqueued, sinceArm, rearmed, statuses>>
    /\ UNCHANGED <<ctlVars, histVars>>

\* ------------------------------------------------------------------ worker loop
\* _stop_task: the sentinel callable and the reserved name it is registered under.
_stop_task == [kind |-> "callable", v |-> "_stop_task", name |-> "<stop_task>"]

\* A start_worker call that has not been made.
NotStarted == [pc |-> "idle", max_wait |-> TimeoutNone, why |-> ""]

\* A payload loads() cannot read: written by a foreign producer, or damaged.
Garbage == [kind |-> "garbage"]

\* A producer that is not this Broker queues a payload under a fresh id.
EnqueueCorrupt(id) ==
    /\ id \notin enqueued
    /\ enqueue_task(id, Garbage, None)
    /\ enqueued' = enqueued \cup {id}
    /\ UNCHANGED <<current, received, waiting, ret, enqRet, sinceArm, rearmed,
                   statuses>>
    /\ UNCHANGED <<tsVars, ctlVars, histVars>>

\* Broker.stop: FunctionTask(_stop_task.name, (), {}, {}) with id 'stop'.
StopTask == [Task(StopId, <<>>, 1, 2) EXCEPT !.name = _stop_task.name]

\* Broker.stop(): the sentinel goes through Broker.enqueue like any task.
\* At most MaxStops sentinels are pending at a time.
Stop ==
    /\ Pending(StopId) < MaxStops
    /\ UnknownOptions(StopTask.options) = {}
    /\ enqueue_task(StopTask.id, serialize(StopTask), EnqueueResult(StopTask))
    /\ enqueued' = enqueued \cup {StopTask.id}
    /\ enqRet' = [kind |-> "returned", task |-> StopTask,
                  result |-> EnqueueResult(StopTask)]
    /\ UNCHANGED <<current, received, waiting, ret, sinceArm, rearmed, statuses>>
    /\ UNCHANGED <<tsVars, ctlVars, histVars>>

\* Broker.start_worker(max_wait) is called for a worker.
StartWorker(w, max_wait) ==
    /\ loop[w].pc = "idle"
    /\ current[w] = None
    /\ loop' = [loop EXCEPT ![w] = [pc |-> "next", max_wait |-> max_wait,
                                    why |-> ""]]
    /\ UNCHANGED <<queue, results, current, received, waiting, ret, enqRet,
                   enqueued, sinceArm, rearmed, statuses, invoked, tasks,
                   exposeRet, statusRet>>
    /\ UNCHANGED <<tsVars, histVars>>

\* Variant: a loop that keeps pulling after next_task returned None.
LoopBreaksNever(task) == FALSE

\* Broker.start_worker: `if task is None: break`
LoopBreaks(task) == task = None

\* Broker.start_worker, top of the loop: task = self.next_task(timeout=max_wait).
WorkerNextTask(w) ==
    /\ loop[w].pc = "next"
    /\ NextTaskCall(w, loop[w].max_wait)
    /\ loop' = [loop EXCEPT
                    ![w].pc = IF LoopBreaks(current'[w]) THEN "returned"
                              ELSE "invoke",
                    ![w].why = IF current'[w] # None THEN ""
                               ELSE IF queue = <<>> THEN "empty" ELSE "corrupt"]
    /\ UNCHANGED <<waiting, ret, enqRet, enqueued, rearmed, statuses, invoked,
                   tasks, exposeRet, statusRet>>
    /\ UNCHANGED <<tsVars, histVars>>

\* task.invoke(broker): the sentinel's callable raises _StopWorker; any other
\* task body runs to its end and reports its own failures.
InvokeSignal(task) ==
    IF task.name = _stop_task.name THEN "_StopWorker" ELSE "none"

\* Variant: a loop without the except clause.
LoopCatchesNothing(signal) == FALSE

\* Broker.start_worker: `except _StopWorker`
LoopCatches(signal) == signal = "_StopWorker"

\* Broker.start_worker, body of the loop: task.invoke(self).
WorkerInvoke(w) ==
    /\ loop[w].pc = "invoke"
    /\ current[w] # None
    /\ IF InvokeSignal(current[w]) = "none"
       THEN /\ loop' = [loop EXCEPT ![w].pc = "next"]
            /\ invoked' = Append(invoked, [w |-> w, id |-> current[w].id])
       ELSE /\ loop' = [loop EXCEPT
                            ![w].pc = IF LoopCatches(InvokeSignal(current[w]))
                                      THEN "returned" ELSE "raised",
                            ![w].why = "stop"]
            /\ UNCHANGED invoked
    /\ current' = [current EXCEPT ![w] = None]
    /\ UNCHANGED <<queue, results, received, waiting, ret, enqRet, enqueued,
                   sinceArm, rearmed, statuses, tasks, exposeRet, statusRet>>
    /\ UNCHANGED <<tsVars, histVars>>

\* ------------------------------------------------------------------ task registry
\* Names tasks are exposed under; the sentinel's reserved name is one of them.
TaskNames == {"a", "b", _stop_task.name}

\* Task callables.
Callables == {[kind |-> "callable", v |-> "f"], [kind |-> "callable", v |-> "g"]}

\* TaskSpace.tasks of the object handed to expose: a mapping name -> callable
\* (one entry when the object is a single callable).
Spaces ==
    UNION { [names -> Callables] : names \in SUBSET TaskNames \ {{}} }

\* Variant: no name is ever reported as taken.
ConflictsNever(name) == FALSE

\* Broker.expose: `name in self.tasks`
Conflicts(name) == name \in DOMAIN tasks

\* Broker.expose: self.tasks after `self.tasks[name] = func` for the names.
Registered(space, names) ==
    [n \in names \cup DOMAIN tasks |-> IF n \in names THEN space[n] ELSE tasks[n]]

\* Broker.expose(obj).  The mapping is iterated in dictionary order: the names
\* visited before the first conflicting one are registered before the error.
Expose(space) ==
    /\ LET conflicting == {n \in DOMAIN space : Conflicts(n)}
       IN IF conflicting = {}
          THEN /\ tasks' = Registered(space, DOMAIN space)
               /\ exposeRet' = [kind |-> "returned", space |-> space]
          ELSE /\ \E done \in SUBSET (DOMAIN space \ conflicting) :
                      tasks' = Registered(space, done)
               /\ exposeRet' = [kind |-> "ValueError", space |-> space]
    /\ UNCHANGED <<queue, results, current, received, waiting, ret, enqRet,
                   enqueued, sinceArm, rearmed, statuses, loop, invoked,
                   statusRet>>
    /\ UNCHANGED <<tsVars, histVars>>

\* ------------------------------------------------------------------ specification
PopTimeouts == {TimeoutNone, Seconds(-1), Seconds(0), Seconds(1)}
NextTimeouts == {TimeoutNone, Seconds(0)}

NoReturn ==
    [kind |-> "none", id |-> 0, timeout |-> Seconds(0), waited |-> FALSE,
     value |-> None]

Init ==
    /\ queue = <<>>
    /\ results = [id \in Ids |-> Absent]
    /\ current = [w \in Workers |-> None]
    /\ received = [id \in Ids |-> 0]
    /\ waiting = [c \in Clients |-> NotWaiting]
    /\ ret = NoReturn
    /\ enqRet = [kind |-> "none", task |-> None, result |-> None]
    /\ enqueued = {}
    /\ sinceArm = [id \in TaskIds |-> 0]
    /\ rearmed = {}
    /\ statuses = [id \in TaskIds |-> None]
    /\ tasksets = [ts \in TasksetIds |-> NoTaskset]
    /\ tsHist = [ts \in TasksetIds |->
                    [size |-> 0, reported |-> {}, since |-> {}, completions |-> 0]]
    /\ tsRet = [id |-> "", by |-> 0, value |-> NoList]
    /\ loop = [w \in Workers |-> NotStarted]
    /\ invoked = <<>>
    /\ tasks = (_stop_task.name :> _stop_task)
    /\ exposeRet = [kind |-> "none", space |-> <<>>]
    /\ statusRet = [id |-> 0, value |-> None]
    /\ lastStatus = [id \in TaskIds |-> [set |-> FALSE, value |-> None]]
    /\ delivered = [id \in TaskIds |-> 0]

\* The result lifecycle of tracked tasks: a worker that runs them, a caller
\* that asks for their results, and the clock.
Next ==
    \/ \E task \in TrackedTasks : Enqueue(task)
    \/ \E w \in Runners : NextTask(w, TimeoutNone)
    \/ \E w \in Runners : Heartbeat(w)
    \/ \E w \in Runners, result \in ResultValues : SetResult(w, result)
    \/ \E w \in Runners : TaskFailed(w)
    \/ \E c \in Callers, id \in 1..MaxTracked, timeout \in PopTimeouts :
           PopResult(c, id, timeout)
    \/ \E c \in Callers : PopResultWake(c)
    \/ Tick

Spec == Init /\ [][Next]_vars

\* Submissions whose results concurrent callers compete for.
PopTasks == {task \in TrackedTasks : task.heartrate = 0}

\* Concurrent callers of pop_result, with the timeouts the validation admits,
\* on the results one worker stores.
NextPop ==
    \/ \E task \in PopTasks : Enqueue(task)
    \/ \E w \in Runners : NextTask(w, TimeoutNone)
    \/ \E w \in Runners, result \in ResultValues : SetResult(w, result)
    \/ \E c \in Clients, id \in 1..MaxTracked, timeout \in {Seconds(0), Seconds(1)} :
           PopResult(c, id, timeout)
    \/ \E c \in Clients : PopResultWake(c)
    \/ Tick

SpecPop == Init /\ [][NextPop]_vars

\* Submission and dequeue: every kind of options dictionary, concurrent workers.
NextQueue ==
    \/ \E task \in Tasks : Enqueue(task)
    \/ \E w \in Workers, timeout \in NextTimeouts : NextTask(w, timeout)
    \/ \E id \in TaskIds, value \in StatusInputs : SetStatus(id, value)

SpecQueue == Init /\ [][NextQueue]_vars

\* Fire-and-forget submissions for the worker loops.
PlainTasks == { Task(i, <<>>, 1, rt) : i \in TaskIds, rt \in ResultTimeouts }

\* Worker loops: producers of tasks, of unreadable payloads and of stop
\* sentinels, and start_worker calls that pull and invoke.
NextWorker ==
    \/ \E task \in PlainTasks : Enqueue(task)
    \/ \E id \in TaskIds : EnqueueCorrupt(id)
    \/ Stop
    \/ \E w \in Workers, max_wait \in NextTimeouts : StartWorker(w, max_wait)
    \/ \E w \in Workers : WorkerNextTask(w)
    \/ \E w \in Workers : WorkerInvoke(w)

SpecWorker == Init /\ [][NextWorker]_vars

\* The registry: expose calls while tasks are being submitted.
NextRegistry ==
    \/ \E space \in Spaces : Expose(space)
    \/ \E task \in PlainTasks : Enqueue(task)

SpecRegistry == Init /\ [][NextRegistry]_vars

\* Status values written in the status store's specification: enumeration
\* values, an application object and None.
StatusArgs == StatusInputs \cup STATUS_VALUES \cup {None}

\* The status store next to submissions of tracked tasks.
NextStatus ==
    \/ \E task \in TrackedTasks : Enqueue(task)
    \/ \E id \in TaskIds, value \in StatusArgs : SetStatus(id, value)
    \/ \E id \in TaskIds : Status(id)

SpecStatus == Init /\ [][NextStatus]_vars

\* Discarding the pending queue while tasks are submitted, dequeued and
\* finished and statuses are written.
NextDiscard ==
    \/ \E task \in PopTasks \cup PlainTasks : Enqueue(task)
    \/ \E w \in Runners : NextTask(w, TimeoutNone)
    \/ \E w \in Runners, result \in ResultValues : SetResult(w, result)
    \/ \E id \in TaskIds, value \in StatusInputs : SetStatus(id, value)
    \/ DiscardPendingTasks

SpecDiscard == Init /\ [][NextDiscard]_vars

\* A started loop keeps being scheduled and every task body terminates.
FairSpecWorker ==
    SpecWorker /\ \A w \in Workers :
                     WF_vars(WorkerNextTask(w)) /\ WF_vars(WorkerInvoke(w))

\* Taskset convergence: subtasks of initialized tasksets report in any order
\* while the clock runs.
NextTaskset ==
    \/ \E ts \in TasksetIds, size \in 1..MaxSize, h \in {1} :
           InitTaskset(TaskSet(ts, size, h))
    \/ \E ts \in TasksetIds, i \in 1..MaxSize, timeout \in ResultTimeouts :
           UpdateTaskset(ts, i, timeout)
    \/ Tick

SpecTaskset == Init /\ [][NextTaskset]_vars

\* ------------------------------------------------------------------ properties
\* C1 (exactly-once dequeue): every task accepted by enqueue is, at any moment,
\* either still pending once or was returned by exactly one next_task call,
\* never both, never twice, never neither; an id never submitted is nowhere;
\* no two workers hold the same task.
C1_ExactlyOnceDequeue ==
    /\ \A id \in TaskIds :
          IF id \in enqueued
          THEN Pending(id) + received[id] = 1
          ELSE Pending(id) = 0 /\ received[id] = 0
    /\ \A w \in Workers : \A v \in Workers :
          (current[w] # None /\ current[v] # None /\ w # v)
              => current[w].id # current[v].id
    /\ \A w \in Workers :
          current[w] # None =>
              /\ current[w] \in Tasks
              /\ received[current[w].id] = 1

\* Two workers pulled concurrently and each holds a different task.
C1_Witness ==
    /\ queue = <<>>
    /\ Cardinality(enqueued) >= 2
    /\ \A w \in Workers : current[w] # None
    /\ \A id \in enqueued : received[id] = 1

\* The option keys the contract recognizes.
RecognizedOptions ==
    {"result_status", "result_timeout", "heartrate", "taskset", "on_error", "size"}

\* C3 (option validation): an enqueue of a task with an option key outside the
\* recognized set fails with the unrecognized-option error and leaves the
\* pending queue, the result slots and the statuses as they were.
C3_OptionValidation ==
    [][\A task \in Tasks :
          (Enqueue(task) /\ ~(DOMAIN task.options \subseteq RecognizedOptions))
              => /\ enqRet'.kind = "ValueError"
                 /\ enqRet'.task = task
                 /\ queue' = queue
                 /\ results' = results
                 /\ statuses' = statuses
                 /\ enqueued' = enqueued]_vars

\* A submission with result_status and an unknown key was rejected while the
\* backend already held a pending task, a placeholder and a status.
C3_Witness ==
    /\ enqRet.kind = "ValueError"
    /\ "result_status" \in DOMAIN enqRet.task.options
    /\ results[enqRet.task.id].kind = "absent"
    /\ queue # <<>>
    /\ \E id \in TaskIds : results[id].kind = "placeholder"
    /\ \E id \in TaskIds : statuses[id] # None

\* The claim's reading of "requests result tracking".
WantsTracking(options) ==
    \/ "result_status" \in DOMAIN options /\ options["result_status"] # 0
    \/ "result_timeout" \in DOMAIN options

\* C4 (fire-and-forget): an accepted enqueue returns a handle and creates the
\* placeholder exactly when the options request tracking; otherwise it returns
\* None and creates nothing; either way the task becomes pending.
C4_FireAndForget ==
    [][\A task \in Tasks :
          (Enqueue(task) /\ DOMAIN task.options \subseteq RecognizedOptions)
              => /\ enqRet'.kind = "returned"
                 /\ queue' = Append(queue, [id |-> task.id, message |-> serialize(task)])
                 /\ IF WantsTracking(task.options)
                    THEN /\ enqRet'.result =
                                DeferredResult(task.id, task.name, task.heartrate)
                         /\ results'[task.id].kind = "placeholder"
                         /\ ~results'[task.id].armed
                    ELSE /\ enqRet'.result = None
                         /\ results'[task.id].kind = "absent"
                 /\ \A id \in TaskIds \ {task.id} : results'[id] = results[id]]_vars

\* A fire-and-forget submission (result_status present but false) was accepted:
\* no handle, no placeholder, the task pending; another task is tracked.
C4_Witness ==
    /\ enqRet.kind = "returned"
    /\ enqRet.result = None
    /\ "result_status" \in DOMAIN enqRet.task.options
    /\ results[enqRet.task.id].kind = "absent"
    /\ Pending(enqRet.task.id) = 1
    /\ \E id \in TaskIds : results[id].kind = "placeholder"

\* The ids result-tracked tasks are submitted under.
TrackedIds == 1..MaxTracked

\* The heartbeat window the contract states for a heartrate.
Window(heartrate) == 2 * heartrate + 5

\* C5 (expiry propagation): once task_failed was called for a tracked task,
\* every pop_result on its id with an admissible timeout (None or >= 0),
\* whether issued afterwards or already blocked, fails with TaskExpired.
C5_ExpiryPropagation ==
    [][\A c \in Clients :
          /\ \A id \in TrackedIds :
             \A timeout \in {TimeoutNone, Seconds(0), Seconds(1)} :
                (PopResult(c, id, timeout) /\ results[id].kind = "failed")
                    => ret' = [kind |-> "TaskExpired", id |-> id,
                               timeout |-> timeout, waited |-> FALSE,
                               value |-> None]
          /\ (PopResultWake(c) /\ results[waiting[c].id].kind = "failed")
                => /\ ret'.kind = "TaskExpired"
                   /\ ret'.id = waiting[c].id
                   /\ ~waiting'[c].active]_vars

\* C5 for the timeouts the validation lets through (a number >= 0).
C5_ExpiryPropagationNumeric ==
    [][\A c \in Clients :
          /\ \A id \in TrackedIds : \A timeout \in {Seconds(0), Seconds(1)} :
                (PopResult(c, id, timeout) /\ results[id].kind = "failed")
                    => ret' = [kind |-> "TaskExpired", id |-> id,
                               timeout |-> timeout, waited |-> FALSE,
                               value |-> None]
          /\ (PopResultWake(c) /\ results[waiting[c].id].kind = "failed")
                => /\ ret'.kind = "TaskExpired"
                   /\ ret'.id = waiting[c].id
                   /\ ~waiting'[c].active]_vars

\* A blocked pop_result was released with TaskExpired by task_failed.
C5_NumericWitness ==
    /\ ret.kind = "TaskExpired"
    /\ ret.waited
    /\ results[ret.id].kind = "failed"

\* C6 (absence is not expiry): for a tracked task nobody has dequeued,
\* pop_result(timeout=0) returns at once with KeyError; and whenever a
\* pop_result fails with TaskExpired the backend had recorded expiry for the id
\* (the placeholder lapsed, or task_failed forced the token).
C6_AbsenceNotExpiry ==
    [][\A c \in Clients :
          /\ \A id \in TrackedIds :
                (/\ PopResult(c, id, Seconds(0))
                 /\ results[id].kind = "placeholder"
                 /\ ~results[id].armed)
                    => /\ ret' = [kind |-> "KeyError", id |-> id,
                                  timeout |-> Seconds(0), waited |-> FALSE,
                                  value |-> None]
                       /\ ~waiting'[c].active
                       /\ results' = results
          /\ \A id \in TrackedIds : \A timeout \in PopTimeouts :
                (/\ PopResult(c, id, timeout)
                 /\ ~waiting'[c].active
                 /\ ret'.kind = "TaskExpired")
                    => results[id].kind \in {"expired", "failed"}
          /\ (PopResultWake(c) /\ ret'.kind = "TaskExpired")
                => results[waiting[c].id].kind \in {"expired", "failed"}]_vars

\* pop_result(timeout=0) failed with KeyError on a task that is tracked,
\* still pending and unexpired.
C6_Witness ==
    /\ ret.kind = "KeyError"
    /\ ret.timeout = Seconds(0)
    /\ results[ret.id].kind = "placeholder"
    /\ ~results[ret.id].armed
    /\ Pending(ret.id) = 1

\* C7 (heartbeat extension): a heartbeat on a live placeholder sets its
\* remaining time to exactly 2*heartrate+5 whatever was left before, and a
\* placeholder expires only when a full window has passed since it was last
\* armed (by the dequeue or by a heartbeat).
C7_HeartbeatExtension ==
    [][/\ \A w \in Workers :
             (/\ Heartbeat(w)
              /\ results[current[w].id].kind = "placeholder")
                 => /\ results'[current[w].id].kind = "placeholder"
                    /\ results'[current[w].id].armed
                    /\ results'[current[w].id].ttl = Window(current[w].heartrate)
       /\ \A id \in TaskIds :
             (results[id].kind = "placeholder" /\ results'[id].kind = "expired")
                 => sinceArm'[id] >= Window(results[id].heartrate)]_vars

\* A task whose clock was re-armed in its last second is again in the last
\* second of a window: it has run for 2*(window-1) > window seconds and its
\* placeholder is still live.
C7_Witness ==
    \E id \in TrackedIds :
        /\ id \in rearmed
        /\ results[id].kind = "placeholder"
        /\ results[id].armed
        /\ results[id].ttl = 1
        /\ sinceArm[id] = Window(results[id].heartrate) - 1
        /\ \E w \in Workers : current[w] # None /\ current[w].id = id

\* C8 (lapsed heartbeat): the dequeue arms the placeholder with the
\* 2*heartrate+5 window; a live placeholder never outlasts its window; and a
\* pop_result(timeout=None) on an id whose placeholder lapsed fails with
\* TaskExpired.
C8_LapsedHeartbeat ==
    [][/\ \A w \in Workers :
             (/\ NextTask(w, TimeoutNone)
              /\ results[Head(queue).id].kind = "placeholder")
                 => /\ results'[Head(queue).id].armed
                    /\ results'[Head(queue).id].ttl =
                           Window(results[Head(queue).id].heartrate)
       /\ \A id \in TaskIds :
             (results'[id].kind = "placeholder" /\ results'[id].armed)
                 => sinceArm'[id] < Window(results'[id].heartrate)
       /\ \A c \in Clients : \A id \in TrackedIds :
             (PopResult(c, id, TimeoutNone) /\ results[id].kind = "expired")
                 => ret' = [kind |-> "TaskExpired", id |-> id,
                            timeout |-> TimeoutNone, waited |-> FALSE,
                            value |-> None]]_vars

\* C8 with the wait the validation lets through (timeout=0 after the window).
C8_LapsedHeartbeatNumeric ==
    [][/\ \A w \in Workers :
             (/\ NextTask(w, TimeoutNone)
              /\ results[Head(queue).id].kind = "placeholder")
                 => /\ results'[Head(queue).id].armed
                    /\ results'[Head(queue).id].ttl =
                           Window(results[Head(queue).id].heartrate)
       /\ \A id \in TaskIds :
             (results'[id].kind = "placeholder" /\ results'[id].armed)
                 => sinceArm'[id] < Window(results'[id].heartrate)
       /\ \A c \in Clients : \A id \in TrackedIds :
          \A timeout \in {Seconds(0), Seconds(1)} :
             (PopResult(c, id, timeout) /\ results[id].kind = "expired")
                 => ret' = [kind |-> "TaskExpired", id |-> id,
                            timeout |-> timeout, waited |-> FALSE,
                            value |-> None]]_vars

\* C9 (waiting modes): pop_result(timeout=None) passes the validation and
\* either hands out what the backend has for the id or blocks;
\* pop_result(timeout=0) never blocks.
C9_WaitingModes ==
    [][\A c \in Clients : \A id \in TrackedIds :
          /\ PopResult(c, id, TimeoutNone)
                => IF Available(id)
                   THEN /\ ret'.kind \in {"value", "TaskExpired"}
                        /\ ret'.id = id
                        /\ ret'.timeout = TimeoutNone
                   ELSE /\ waiting'[c].active
                        /\ waiting'[c].id = id
                        /\ ret' = ret
          /\ PopResult(c, id, Seconds(0))
                => /\ ~waiting'[c].active
                   /\ ret'.kind \in {"value", "TaskExpired", "KeyError"}
                   /\ ret'.id = id
                   /\ ret'.timeout = Seconds(0)]_vars

\* C9's second half alone: pop_result(timeout=0) never blocks.
C9_ZeroTimeoutImmediate ==
    [][\A c \in Clients : \A id \in TrackedIds :
          PopResult(c, id, Seconds(0))
              => /\ ~waiting'[c].active
                 /\ ret'.kind \in {"value", "TaskExpired", "KeyError"}
                 /\ ret'.id = id
                 /\ ret'.timeout = Seconds(0)]_vars

\* C10 (negative timeout): pop_result with a negative number of seconds fails
\* with the validation error and leaves every result slot and every waiter as
\* it was, also when a result is stored for the id.
C10_NegativeTimeout ==
    [][\A c \in Clients : \A id \in TrackedIds : \A timeout \in PopTimeouts :
          (PopResult(c, id, timeout) /\ ~timeout.isNone /\ timeout.secs < 0)
              => /\ ret' = [kind |-> "ValueError", id |-> id, timeout |-> timeout,
                            waited |-> FALSE, value |-> None]
                 /\ results' = results
                 /\ waiting' = waiting]_vars

\* A negative timeout was rejected while a result was stored for the id, and
\* the result is still there.
C10_Witness ==
    /\ ret.kind = "ValueError"
    /\ ret.timeout = Seconds(-1)
    /\ results[ret.id].kind = "result"

\* C2 (taskset exactly-once completion): an update_taskset call is answered
\* with a list exactly when it brings the number of accumulated updates to the
\* taskset's size K; the list then has length K and holds the K submitted
\* messages; every other call is answered None; and no taskset id is ever
\* answered with a list twice.
C2_TasksetCompletion ==
    [][\A ts \in TasksetIds : \A i \in 1..MaxSize : \A timeout \in ResultTimeouts :
          UpdateTaskset(ts, i, timeout) =>
              LET K == tsHist[ts].size
                  accumulated == tsHist[ts].since \cup {i}
                  answer == tsRet'.value
              IN /\ tsRet'.id = ts
                 /\ (~answer.isNone) <=> (Cardinality(accumulated) = K)
                 /\ (~answer.isNone) =>
                       /\ Len(answer.list) = K
                       /\ {answer.list[k] : k \in 1..K} =
                              {serialize(SubResult(j)) : j \in 1..K}
                 /\ (tsHist[ts].since = tsHist[ts].reported
                        /\ tsHist[ts].reported \cup {i} = 1..K) => ~answer.isNone
                 /\ tsHist'[ts].completions <= 1
                 /\ \A other \in TasksetIds \ {ts} : tasksets'[other] = tasksets[other]]_vars

\* The last of three or more updates was answered with the whole collection
\* while another taskset is still collecting.
C2_Witness ==
    /\ ~tsRet.value.isNone
    /\ Len(tsRet.value.list) >= 3
    /\ tsHist[tsRet.id].completions = 1
    /\ tsHist[tsRet.id].reported = 1..tsHist[tsRet.id].size
    /\ \E other \in TasksetIds \ {tsRet.id} :
          /\ tasksets[other].open
          /\ tasksets[other].msgs # <<>>

\* The head of the queue is a payload that cannot be deserialized.
CorruptHead == queue # <<>> /\ Head(queue).message.kind # "pickle"

\* C11 (deserialization failure contained): when the message a next_task call
\* removes from the queue cannot be deserialized, the caller is handed None,
\* as for an empty dequeue, and not an exception; the message is gone from the
\* queue and counts as no task returned.
C11_DeserializationContained ==
    [][\A w \in Workers :
          (WorkerNextTask(w) /\ CorruptHead)
              => /\ current'[w] = None
                 /\ queue' = Tail(queue)
                 /\ received' = received
                 /\ loop'[w].pc # "raised"]_vars

\* A next_task call swallowed an unreadable payload while a valid task was
\* queued behind it.
C11_Witness ==
    \E w \in Workers :
        /\ loop[w].why = "corrupt"
        /\ current[w] = None
        /\ \E i \in 1..Len(queue) : queue[i].message.kind = "pickle"

\* C12 (a worker tolerates a corrupt message): when a worker loop dequeues a
\* message that cannot be deserialized, the loop does not end because of it:
\* it goes on to pull the next message.
C12_WorkerToleratesCorrupt ==
    [][\A w \in Workers :
          (WorkerNextTask(w) /\ CorruptHead)
              => /\ loop'[w].pc = "next"
                 /\ loop'[w].why = ""]_vars

\* Workers whose loop the stop signal ended, or that hold a sentinel.
StoppedBySentinel ==
    {w \in Workers : loop[w].why = "stop"} \cup {w \in Workers : current[w] = StopTask}

\* C13 (stop sentinel): a stop() call queues one sentinel and creates no
\* result placeholder; invoking a sentinel ends the loop of the worker that
\* dequeued it, and only that loop, by a normal return of start_worker, without
\* touching any result slot or status; a loop is ended by the stop signal only
\* by invoking a sentinel it dequeued; every dequeued sentinel accounts for
\* exactly one worker.
C13_StopSentinel ==
    [][/\ Stop => /\ queue' = Append(queue, [id |-> StopId,
                                               message |-> serialize(StopTask)])
                  /\ results' = results
                  /\ loop' = loop
       /\ \A w \in Workers :
             /\ (WorkerInvoke(w) /\ current[w].name = "<stop_task>")
                   => /\ loop'[w].pc = "returned"
                      /\ loop'[w].why = "stop"
                      /\ \A v \in Workers \ {w} : loop'[v] = loop[v]
                      /\ results' = results
                      /\ statuses' = statuses
                      /\ invoked' = invoked
             /\ (loop[w].why # "stop" /\ loop'[w].why = "stop")
                   => /\ loop[w].pc = "invoke"
                      /\ current[w] = StopTask
       /\ Cardinality(StoppedBySentinel') = received'[StopId]]_vars

\* One loop was ended by the sentinel and returned normally; the other loop
\* went on and holds a task it dequeued afterwards.
C13_Witness ==
    \E w \in Workers : \E v \in Workers \ {w} :
        /\ loop[w].pc = "returned"
        /\ loop[w].why = "stop"
        /\ received[StopId] = 1
        /\ loop[v].pc = "invoke"
        /\ current[v] \in PlainTasks

\* The ids of the invocations that returned.
InvokedIds == {invoked[i].id : i \in 1..Len(invoked)}

\* C19 (worker loop termination): a loop ends only when its next_task call
\* returned None or when it invoked the stop sentinel; it invokes exactly the
\* task its last next_task call returned, one at a time, before it pulls
\* again; when it ends on an empty dequeue nothing is pending and every task
\* dequeued so far was invoked or is in the hands of another worker; and a
\* started loop with a finite max_wait eventually returns.
C19_WorkerLoopTermination ==
    /\ [][\A w \in Workers :
             /\ (loop[w].pc # "returned" /\ loop'[w].pc = "returned")
                   => \/ WorkerNextTask(w) /\ current'[w] = None
                      \/ WorkerInvoke(w) /\ current[w].name = "<stop_task>"
             /\ (WorkerInvoke(w) /\ current[w].name # "<stop_task>")
                   => /\ invoked' = Append(invoked, [w |-> w, id |-> current[w].id])
                      /\ received[current[w].id] = 1
                      /\ current[w].id \notin InvokedIds
                      /\ loop'[w].pc = "next"
             /\ (WorkerNextTask(w) /\ current'[w] # None)
                   => /\ current'[w] = deserialize(Head(queue).message)
                      /\ loop'[w].pc = "invoke"
             /\ (WorkerNextTask(w) /\ queue = <<>>)
                   => /\ loop'[w].pc = "returned"
                      /\ \A id \in TaskIds :
                            received[id] > 0 =>
                                \/ id \in InvokedIds
                                \/ \E v \in Workers \ {w} :
                                       current[v] # None /\ current[v].id = id]_vars
    /\ \A w \in Workers :
          (loop[w].pc \in {"next", "invoke"} /\ ~loop[w].max_wait.isNone)
              ~> (loop[w].pc = "returned")

\* A single loop with a finite max_wait invoked every submitted task in
\* submission order and then returned on an empty dequeue.
C19_Witness ==
    \E w \in Workers :
        /\ loop[w].pc = "returned"
        /\ loop[w].why = "empty"
        /\ ~loop[w].max_wait.isNone
        /\ Len(invoked) >= 2
        /\ \A i \in 1..Len(invoked) : invoked[i].w = w
        /\ InvokedIds = enqueued
        /\ queue = <<>>

\* C14 (task registry): an expose call that is asked to register a name the
\* registry already holds fails with the naming-conflict error; no expose call
\* changes or removes what a registered name maps to, so every name keeps the
\* callable first registered under it and the reserved name keeps the
\* sentinel; a call without a conflict registers all its names; no expose call
\* touches the backend.
C14_TaskRegistry ==
    [][\A space \in Spaces :
          Expose(space)
              => /\ (DOMAIN space \cap DOMAIN tasks # {})
                        => exposeRet' = [kind |-> "ValueError", space |-> space]
                 /\ (DOMAIN space \cap DOMAIN tasks = {})
                        => /\ exposeRet' = [kind |-> "returned", space |-> space]
                           /\ \A n \in DOMAIN space :
                                 n \in DOMAIN tasks' /\ tasks'[n] = space[n]
                 /\ \A n \in DOMAIN tasks :
                       n \in DOMAIN tasks' /\ tasks'[n] = tasks[n]
                 /\ \A n \in DOMAIN tasks' \ DOMAIN tasks :
                       n \in DOMAIN space /\ tasks'[n] = space[n]
                 /\ tasks'["<stop_task>"] = _stop_task
                 /\ queue' = queue
                 /\ results' = results
                 /\ statuses' = statuses
                 /\ tasksets' = tasksets]_vars

\* An expose of two names failed on the reserved name and on a name held by
\* another callable; both kept their first callable, while a task was pending.
C14_Witness ==
    /\ exposeRet.kind = "ValueError"
    /\ DOMAIN exposeRet.space = {"a", "<stop_task>"}
    /\ "a" \in DOMAIN tasks
    /\ tasks["a"] # exposeRet.space["a"]
    /\ tasks["<stop_task>"] = _stop_task
    /\ queue # <<>>

\* C15 (status store): status returns None for an id no status was set for and
\* otherwise a value equal to the value of the most recent set_status for the
\* id; set_status stores an enumeration value as it is and any other value
\* serialized, for that id only; neither call changes the pending queue or a
\* result slot.
C15_StatusStore ==
    [][/\ \A id \in TaskIds : \A value \in StatusArgs :
             SetStatus(id, value)
                 => /\ statuses'[id] = IF value \in STATUS_VALUES THEN value
                                       ELSE [kind |-> "pickle", obj |-> value]
                    /\ \A other \in TaskIds \ {id} : statuses'[other] = statuses[other]
                    /\ queue' = queue
                    /\ results' = results
       /\ \A id \in TaskIds :
             Status(id)
                 => /\ statusRet'.id = id
                    /\ statusRet'.value = IF lastStatus[id].set
                                          THEN lastStatus[id].value ELSE None
                    /\ statuses' = statuses
                    /\ queue' = queue
                    /\ results' = results]_vars

\* A status read returned the application object last written for a tracked,
\* pending task while another id holds an enumeration value.
C15_Witness ==
    /\ statusRet.value = [kind |-> "obj", v |-> "s1"]
    /\ statusRet.id \in TaskIds
    /\ statuses[statusRet.id] = [kind |-> "pickle", obj |-> statusRet.value]
    /\ results[statusRet.id].kind = "placeholder"
    /\ Pending(statusRet.id) = 1
    /\ \E other \in TaskIds \ {statusRet.id} : statuses[other] \in STATUS_VALUES

\* C16 (placeholder before visibility): whenever a next_task call returns a
\* task submitted with result tracking, the task's result placeholder existed
\* before the call and is armed after it; every tracked task that is pending
\* has its placeholder; hence a worker holding a tracked task always has a
\* result slot to write to.
C16_PlaceholderBeforeVisibility ==
    [][/\ \A w \in Workers : \A timeout \in NextTimeouts :
             (/\ NextTask(w, timeout)
              /\ current'[w] # None
              /\ WantsTracking(current'[w].options))
                 => /\ results[current'[w].id].kind = "placeholder"
                    /\ results'[current'[w].id].kind = "placeholder"
                    /\ results'[current'[w].id].armed
       /\ \A i \in 1..Len(queue') :
             WantsTracking(queue'[i].message.obj.options)
                 => results'[queue'[i].id].kind = "placeholder"
       /\ \A w \in Workers :
             (current'[w] # None /\ WantsTracking(current'[w].options))
                 => results'[current'[w].id].kind # "absent"]_vars

\* A worker holds a tracked task whose placeholder is armed while another
\* tracked task is pending with its placeholder in place.
C16_Witness ==
    /\ \E w \in Workers :
          /\ current[w] # None
          /\ WantsTracking(current[w].options)
          /\ results[current[w].id].armed
    /\ \E i \in 1..Len(queue) :
          /\ WantsTracking(queue[i].message.obj.options)
          /\ results[queue[i].id].kind = "placeholder"
          /\ ~results[queue[i].id].armed

\* C17 (result consumed once): of all pop_result calls on a task id, concurrent
\* (blocked together) or successive, at most one returns the result that
\* set_result stored; the call that returns it finds it stored and leaves the
\* slot empty; and once a call returned the result, a pop_result(timeout=0) on
\* the id fails with KeyError.
C17_ResultConsumedOnce ==
    [][/\ \A id \in TrackedIds : delivered'[id] <= 1
       /\ \A id \in TrackedIds :
             delivered'[id] > delivered[id]
                 => /\ results[id].kind = "result"
                    /\ results'[id].kind = "absent"
                    /\ ret'.kind = "value"
                    /\ ret'.id = id
                    /\ ret'.value = results[id].msg.obj
       /\ \A c \in Clients : \A id \in TrackedIds :
             (PopResult(c, id, Seconds(0)) /\ delivered[id] = 1)
                 => /\ ret' = [kind |-> "KeyError", id |-> id,
                               timeout |-> Seconds(0), waited |-> FALSE,
                               value |-> None]
                    /\ ~waiting'[c].active
                    /\ delivered' = delivered]_vars

\* Two callers were blocked on the same id when the result arrived: one was
\* handed the result, the other is still waiting for it.
C17_Witness ==
    \E c \in Clients : \E id \in TrackedIds :
        /\ delivered[id] = 1
        /\ ret.kind = "value"
        /\ ret.waited
        /\ ret.id = id
        /\ waiting[c].active
        /\ waiting[c].id = id
        /\ waiting[c].remaining = 0
        /\ results[id].kind = "absent"

\* C18 (result round trip): set_result(task, r) on a dequeued tracked task
\* stores the serialized r, and while that result is stored (its retention has
\* not lapsed and nobody popped it) a pop_result on the id with an admissible
\* timeout (None or >= 0), whether issued now or already blocked, returns a
\* value equal to r: not KeyError, not TaskExpired, not another error.
C18_ResultRoundTrip ==
    [][/\ \A w \in Workers : \A r \in ResultValues :
             SetResult(w, r)
                 => /\ results'[current[w].id].kind = "result"
                    /\ results'[current[w].id].msg = [kind |-> "pickle", obj |-> r]
       /\ \A c \in Clients :
             /\ \A id \in TrackedIds :
                \A timeout \in {TimeoutNone, Seconds(0), Seconds(1)} :
                   (PopResult(c, id, timeout) /\ results[id].kind = "result")
                       => ret' = [kind |-> "value", id |-> id, timeout |-> timeout,
                                  waited |-> FALSE, value |-> results[id].msg.obj]
             /\ (PopResultWake(c) /\ results[waiting[c].id].kind = "result")
                   => /\ ret'.kind = "value"
                      /\ ret'.id = waiting[c].id
                      /\ ret'.value = results[waiting[c].id].msg.obj]_vars

\* C18 for the timeouts the validation lets through (a number >= 0).
C18_ResultRoundTripNumeric ==
    [][/\ \A w \in Workers : \A r \in ResultValues :
             SetResult(w, r)
                 => /\ results'[current[w].id].kind = "result"
                    /\ results'[current[w].id].msg = [kind |-> "pickle", obj |-> r]
       /\ \A c \in Clients :
             /\ \A id \in TrackedIds : \A timeout \in {Seconds(0), Seconds(1)} :
                   (PopResult(c, id, timeout) /\ results[id].kind = "result")
                       => ret' = [kind |-> "value", id |-> id, timeout |-> timeout,
                                  waited |-> FALSE, value |-> results[id].msg.obj]
             /\ (PopResultWake(c) /\ results[waiting[c].id].kind = "result")
                   => /\ ret'.kind = "value"
                      /\ ret'.id = waiting[c].id
                      /\ ret'.value = results[waiting[c].id].msg.obj]_vars

\* A blocked pop_result was released with the result the worker stored.
C18_NumericWitness ==
    /\ ret.kind = "value"
    /\ ret.waited
    /\ ret.value \in ResultValues
    /\ delivered[ret.id] = 1
    /\ results[ret.id].kind = "absent"

\* A task that was submitted and is neither pending nor was ever returned by
\* next_task: it was discarded.
Discarded(id) == id \in enqueued /\ Pending(id) = 0 /\ received[id] = 0

\* C20 (discard_pending_tasks): the call empties the pending queue and leaves
\* the tasks workers hold, every result slot (placeholders and stored results)
\* and every status as they were; a discarded task is never returned by a
\* later next_task; next_task returns only a task that was pending.
C20_DiscardPendingTasks ==
    [][/\ DiscardPendingTasks
             => /\ queue' = <<>>
                /\ current' = current
                /\ results' = results
                /\ statuses' = statuses
                /\ received' = received
                /\ \A id \in TaskIds : Pending(id) = 1 => received[id] = 0
       /\ \A id \in TaskIds :
             Discarded(id)
                 => /\ received'[id] = 0
                    /\ \A w \in Workers : current'[w] = None \/ current'[w].id # id
       /\ \A w \in Workers :
             (NextTask(w, TimeoutNone) /\ current'[w] # None)
                 => Pending(current'[w].id) = 1]_vars

\* After a discard nothing is pending and a submitted task was never handed
\* out, while a worker still holds the tracked task it dequeued before, with
\* its placeholder armed, and a status is stored.
C20_Witness ==
    /\ queue = <<>>
    /\ \E id \in TaskIds : Discarded(id)
    /\ \E w \in Workers :
          /\ current[w] # None
          /\ results[current[w].id].kind = "placeholder"
          /\ results[current[w].id].armed
    /\ \E id \in TaskIds : statuses[id] # None

====
